---- MODULE Spec2Model ----
(***************************************************************************)
(* A model of the browser-side data-access layer of secteur-v13:           *)
(*   - the connectivity probe testFirebaseConnection with its retry and    *)
(*     backoff, and the reconnect-triggered recovery (client/lib/          *)
(*     firebase.ts);                                                       *)
(*   - the worker lookup searchWorkerInGoogleSheet;                        *)
(*   - the date normalizer parseFrenchDate.                                *)
(* Strings that the code inspects character by character are modelled as   *)
(* sequences of one-character strings.                                     *)
(***************************************************************************)
EXTENDS Integers, Sequences, FiniteSets, TLC

VARIABLES
    online,        \* navigator.onLine
    currentUser,   \* auth.currentUser is set
    slots,         \* the probe sequences a behaviour follows
    faults,        \* the errors the remote existence check may reject with
    probe,         \* per followed probe sequence: its position and history
    lookup,        \* a call of searchWorkerInGoogleSheet
    date,          \* a string put through parseFrenchDate, once and twice
    stamp,         \* a timestamp put through both variants of parseFrenchDate
    recovery       \* a call of emergency- or aggressiveFirebaseRecovery

vars == <<online, currentUser, slots, faults, probe, lookup, date, stamp,
          recovery>>

(***************************************************************************)
(* Bounds and program constants                                            *)
(***************************************************************************)
MaxProbes == 2

maxRetries == 3

BackoffBaseMs == 2000

ConnectionTimeoutMs == 30000

Probes == 1..MaxProbes

(***************************************************************************)
(* Errors and results                                                      *)
(***************************************************************************)
\* error.code: "none" stands for an error object without a code.
ErrorCodes == {"none", "permission-denied", "failed-precondition",
               "unavailable", "deadline-exceeded"}

\* What error.message includes: 'timeout', else 'fetch', else neither.
MessageKinds == {"timeout", "fetch", "other"}

Errors == [code : ErrorCodes, msg : MessageKinds]

NoErr == [code |-> "-", msg |-> "-"]

\* new Error('Connection timeout'), the rejection of the 30 s timer.
TimeoutError == [code |-> "none", msg |-> "timeout"]

NoResult == [success |-> FALSE, error |-> "<pending>"]

Success == [success |-> TRUE, error |-> "<none>"]

Failure(text) == [success |-> FALSE, error |-> text]

OfflineMsg == "Device is offline"

PermissionMsg == "Firestore rules not deployed. Deploy rules via Firebase Console."

PreconditionMsg == "Firestore database not created - please initialize database in Firebase Console"

UnavailableMsg == "Firebase backend temporarily unavailable. Client will operate in offline mode."

TimeoutMsg == "Connection timeout - server may be slow, retrying..."

NetworkMsg == "Network connectivity issue - check your internet connection"

\* 2 to the power n
RECURSIVE Pow2(_)
Pow2(n) == IF n = 0 THEN 1 ELSE 2 * Pow2(n - 1)

IdleProbe ==
    [pc |-> "idle", origin |-> "none", retryCount |-> 0, attempts |-> 0,
     getDocCalls |-> 0, waits |-> <<>>, err |-> NoErr, onlyTimeouts |-> TRUE,
     enable |-> "none", calls |-> 0, result |-> NoResult, logged |-> NoResult,
     returned |-> NoResult, lateGetDocs |-> 0, lateTimers |-> 0]

(***************************************************************************)
(* testFirebaseConnection                                                  *)
(***************************************************************************)
\* What becomes of the value the outermost call resolves with: the 'online'
\* listener logs it, a direct caller receives it.
Deliver(pr, res) ==
    IF pr.origin = "online"
    THEN [pr EXCEPT !.logged = res]
    ELSE [pr EXCEPT !.returned = res]

\* return res: the probe call is over.
Return(pr, res) ==
    Deliver([pr EXCEPT !.pc = "done", !.result = res], res)

\* Mutant: a backoff that grows linearly.
BackoffDelayLinear(retryCount) == BackoffBaseMs * (retryCount + 1)

\* The delay before retry number retryCount + 1.
BackoffDelay(retryCount) == BackoffBaseMs * Pow2(retryCount)

\* Mutant: the permission-denied branch is missing.
IsTerminalCodeNoPermission(e) ==
    e.code \in {"failed-precondition", "unavailable"}

\* The codes the catch block answers at once.
IsTerminalCode(e) ==
    e.code \in {"permission-denied", "failed-precondition", "unavailable"}

TerminalMessage(e) ==
    CASE e.code = "permission-denied" -> PermissionMsg
      [] e.code = "failed-precondition" -> PreconditionMsg
      [] OTHER -> UnavailableMsg

\* errorMessage of the catch block.
ErrorMessage(e) ==
    IF e.code # "none" THEN "Firebase error: " \o e.code
    ELSE IF e.msg = "timeout" THEN TimeoutMsg
    ELSE IF e.msg = "fetch" THEN NetworkMsg
    ELSE "Connection failed"

\* Mutant: only timeouts are retried.
ShouldRetryTimeoutOnly(e, retryCount) ==
    e.msg = "timeout" /\ retryCount < maxRetries

\* The condition of the retry branch.
ShouldRetry(e, retryCount) ==
    e.msg \in {"timeout", "fetch"} /\ retryCount < maxRetries

\* The catch block, entered with error e.
Catch(pr, e) ==
    LET c == [pr EXCEPT !.err = e,
                        !.onlyTimeouts = @ /\ e = TimeoutError]
    IN  IF IsTerminalCode(e) THEN Return(c, Failure(TerminalMessage(e)))
        ELSE IF ShouldRetry(e, c.retryCount)
        THEN [c EXCEPT !.pc = "backoff",
                       !.waits = Append(@, BackoffDelay(c.retryCount))]
        ELSE Return(c, Failure(ErrorMessage(e)))

\* Mutant: the contender that settles second is heard like the first.
RaceLoserHeard(pr, e) ==
    IF e = NoErr THEN Return(pr, Success) ELSE Catch(pr, e)

\* Promise.race is settled by its first contender; the one that settles
\* (resolves with e = NoErr, rejects with e otherwise) after that finds the
\* race settled, and a settled promise keeps its state.
RaceLoser(pr, e) == pr

\* Mutant: only the first attempt looks at the online flag and the session.
AttemptChecksOnce(pr, retryCount) ==
    LET a == [pr EXCEPT !.retryCount = retryCount, !.attempts = @ + 1]
    IN  IF retryCount > 0 THEN [a EXCEPT !.pc = "race", !.getDocCalls = @ + 1]
        ELSE IF ~online THEN Return(a, Failure(OfflineMsg))
        ELSE IF ~currentUser THEN Return(a, Success)
        ELSE [a EXCEPT !.pc = "race", !.getDocCalls = @ + 1]

\* Mutant: the session check is missing.
AttemptNoSessionCheck(pr, retryCount) ==
    LET a == [pr EXCEPT !.retryCount = retryCount, !.attempts = @ + 1]
    IN  IF ~online THEN Return(a, Failure(OfflineMsg))
        ELSE [a EXCEPT !.pc = "race", !.getDocCalls = @ + 1]

\* Mutant: the session is looked at before the online flag.
AttemptSessionFirst(pr, retryCount) ==
    LET a == [pr EXCEPT !.retryCount = retryCount, !.attempts = @ + 1]
    IN  IF ~currentUser THEN Return(a, Success)
        ELSE IF ~online THEN Return(a, Failure(OfflineMsg))
        ELSE [a EXCEPT !.pc = "race", !.getDocCalls = @ + 1]

\* The body of testFirebaseConnection(retryCount) up to its first await.
Attempt(pr, retryCount) ==
    LET a == [pr EXCEPT !.retryCount = retryCount, !.attempts = @ + 1]
    IN  IF ~online THEN Return(a, Failure(OfflineMsg))
        ELSE IF ~currentUser THEN Return(a, Success)
        ELSE [a EXCEPT !.pc = "race", !.getDocCalls = @ + 1]

(***************************************************************************)
(* Actions                                                                 *)
(***************************************************************************)
\* A direct call testFirebaseConnection().
Call(p) ==
    /\ p \in slots
    /\ probe[p].pc = "idle"
    /\ probe' = [probe EXCEPT ![p] =
          Attempt([@ EXCEPT !.origin = "call", !.calls = 1], 0)]
    /\ UNCHANGED <<online, currentUser, slots, faults, lookup, date, stamp, recovery>>

\* Mutant: the probe is skipped when enableNetwork rejects.
RecoverUnlessEnableFails(pr, ok) ==
    IF ok
    THEN Attempt([pr EXCEPT !.enable = "ok", !.calls = @ + 1], 0)
    ELSE Return([pr EXCEPT !.enable = "failed"], Failure("Connection failed"))

\* attemptConnectionRecovery once enableNetwork has settled.
Recover(pr, ok) ==
    Attempt([pr EXCEPT !.enable = IF ok THEN "ok" ELSE "failed",
                       !.calls = @ + 1], 0)

\* Mutant: a recovery that gives up while another sequence is in flight.
attemptConnectionRecoveryGuarded(pr) ==
    IF \E q \in Probes : probe[q].pc \in {"enable", "race", "backoff"}
    THEN Return([pr EXCEPT !.origin = "online"], Failure("Connection failed"))
    ELSE [pr EXCEPT !.origin = "online", !.pc = "enable", !.enable = "pending"]

\* attemptConnectionRecovery as the 'online' listener calls it, up to its
\* await of enableNetwork(db).
attemptConnectionRecovery(pr) ==
    [pr EXCEPT !.origin = "online", !.pc = "enable", !.enable = "pending"]

\* The browser's 'online' event: the listener calls
\* attemptConnectionRecovery, which awaits enableNetwork(db).
OnlineEvent(p) ==
    /\ ~online
    /\ p \in slots
    /\ probe[p].pc = "idle"
    /\ online' = TRUE
    /\ probe' = [probe EXCEPT ![p] = attemptConnectionRecovery(@)]
    /\ UNCHANGED <<currentUser, slots, faults, lookup, date, stamp, recovery>>

\* An 'online' event whose probe sequence the behaviour does not follow.
OnlineEventUnfollowed ==
    /\ ~online
    /\ \A p \in slots : probe[p].pc # "idle"
    /\ online' = TRUE
    /\ UNCHANGED <<currentUser, slots, faults, probe, lookup, date, stamp, recovery>>

GoOffline ==
    /\ online
    /\ online' = FALSE
    /\ UNCHANGED <<currentUser, slots, faults, probe, lookup, date, stamp, recovery>>

SignIn ==
    /\ ~currentUser
    /\ currentUser' = TRUE
    /\ UNCHANGED <<online, slots, faults, probe, lookup, date, stamp, recovery>>

SignOut ==
    /\ currentUser
    /\ currentUser' = FALSE
    /\ UNCHANGED <<online, slots, faults, probe, lookup, date, stamp, recovery>>

\* enableNetwork(db) resolves (ok) or rejects; the probe runs either way.
EnableSettles(p) ==
    /\ probe[p].pc = "enable"
    /\ \E ok \in BOOLEAN : probe' = [probe EXCEPT ![p] = Recover(@, ok)]
    /\ UNCHANGED <<online, currentUser, slots, faults, lookup, date, stamp, recovery>>

\* getDoc resolves before the timer: the race is won by the remote check.
GetDocResolves(p) ==
    /\ probe[p].pc = "race"
    /\ probe' = [probe EXCEPT ![p] =
          Return([@ EXCEPT !.lateTimers = @ + 1], Success)]
    /\ UNCHANGED <<online, currentUser, slots, faults, lookup, date, stamp, recovery>>

\* getDoc rejects before the timer.
GetDocRejects(p) ==
    /\ probe[p].pc = "race"
    /\ \E e \in faults : probe' = [probe EXCEPT ![p] =
          Catch([@ EXCEPT !.lateTimers = @ + 1], e)]
    /\ UNCHANGED <<online, currentUser, slots, faults, lookup, date, stamp, recovery>>

\* The 30 s timer rejects first; getDoc is left running.
TimerFires(p) ==
    /\ probe[p].pc = "race"
    /\ probe' = [probe EXCEPT ![p] =
          Catch([@ EXCEPT !.lateGetDocs = @ + 1], TimeoutError)]
    /\ UNCHANGED <<online, currentUser, slots, faults, lookup, date, stamp, recovery>>

\* The backoff delay is over: testFirebaseConnection(retryCount + 1).
BackoffElapses(p) ==
    /\ probe[p].pc = "backoff"
    /\ probe' = [probe EXCEPT ![p] = Attempt(@, @.retryCount + 1)]
    /\ UNCHANGED <<online, currentUser, slots, faults, lookup, date, stamp, recovery>>

\* A remote check that lost its race resolves (NoErr) or rejects.
LateGetDocSettles(p) ==
    /\ probe[p].lateGetDocs > 0
    /\ \E e \in {NoErr} \cup faults : probe' = [probe EXCEPT ![p] =
          RaceLoser([@ EXCEPT !.lateGetDocs = @ - 1], e)]
    /\ UNCHANGED <<online, currentUser, slots, faults, lookup, date, stamp, recovery>>

\* A timer that lost its race fires and rejects its promise.
LateTimerFires(p) ==
    /\ probe[p].lateTimers > 0
    /\ probe' = [probe EXCEPT ![p] =
          RaceLoser([@ EXCEPT !.lateTimers = @ - 1], TimeoutError)]
    /\ UNCHANGED <<online, currentUser, slots, faults, lookup, date, stamp, recovery>>

(***************************************************************************)
(* Strings: sequences of one-character strings                             *)
(***************************************************************************)
Digits == <<"0", "1", "2", "3", "4", "5", "6", "7", "8", "9">>

IsDigit(c) == \E i \in 1..10 : Digits[i] = c

DigitVal(c) == (CHOOSE i \in 1..10 : Digits[i] = c) - 1

WhiteSpace == {" ", "\t", "\n"}

\* String.prototype.trim
RECURSIVE TrimStart(_)
TrimStart(s) ==
    IF s # <<>> /\ Head(s) \in WhiteSpace THEN TrimStart(Tail(s)) ELSE s

RECURSIVE TrimEnd(_)
TrimEnd(s) ==
    IF s # <<>> /\ s[Len(s)] \in WhiteSpace
    THEN TrimEnd(SubSeq(s, 1, Len(s) - 1)) ELSE s

Trim(s) == TrimEnd(TrimStart(s))

\* String.prototype.split with a one-character separator
RECURSIVE Split(_, _)
Split(s, sep) ==
    IF \E i \in 1..Len(s) : s[i] = sep
    THEN LET i == CHOOSE k \in 1..Len(s) :
                    s[k] = sep /\ \A j \in 1..(k - 1) : s[j] # sep
         IN  <<SubSeq(s, 1, i - 1)>> \o Split(SubSeq(s, i + 1, Len(s)), sep)
    ELSE <<s>>

\* Numbers as parseInt gives them: NaN, or an integer.
NaN == [nan |-> TRUE, n |-> 0]

Num(n) == [nan |-> FALSE, n |-> n]

\* The value of the longest prefix of digits of s, continuing from acc.
RECURSIVE DigitsValue(_, _)
DigitsValue(s, acc) ==
    IF s # <<>> /\ IsDigit(Head(s))
    THEN DigitsValue(Tail(s), 10 * acc + DigitVal(Head(s)))
    ELSE acc

\* parseInt(s, 10): leading white space, a sign, then the digits up to the
\* first other character; NaN when there is no digit.
ParseInt(s) ==
    LET t == TrimStart(s)
        signed == t # <<>> /\ Head(t) \in {"+", "-"}
        body == IF signed THEN Tail(t) ELSE t
    IN  IF body = <<>> \/ ~IsDigit(Head(body)) THEN NaN
        ELSE IF signed /\ Head(t) = "-" THEN Num(0 - DigitsValue(body, 0))
        ELSE Num(DigitsValue(body, 0))

\* x >= k and x <= k of JavaScript: false on NaN.
Ge(x, k) == ~x.nan /\ x.n >= k

Le(x, k) == ~x.nan /\ x.n <= k

\* String(n) for an integer n
RECURSIVE NatToStr(_)
NatToStr(n) ==
    IF n < 10 THEN <<Digits[n + 1]>>
    ELSE NatToStr(n \div 10) \o <<Digits[(n % 10) + 1]>>

NumToStr(n) == IF n < 0 THEN <<"-">> \o NatToStr(0 - n) ELSE NatToStr(n)

\* s.padStart(width, '0')
RECURSIVE PadStart(_, _)
PadStart(s, width) ==
    IF Len(s) >= width THEN s ELSE PadStart(<<"0">> \o s, width)

(***************************************************************************)
(* parseFrenchDate, the variant that truncates a date-time at 'T'          *)
(***************************************************************************)
Null == [null |-> TRUE, str |-> <<>>]

Some(s) == [null |-> FALSE, str |-> s]

\* /^\d{4}-\d{2}-\d{2}/ matches at the start of s
HasDatePrefix(s) ==
    /\ Len(s) >= 10
    /\ \A i \in {1, 2, 3, 4, 6, 7, 9, 10} : IsDigit(s[i])
    /\ s[5] = "-"
    /\ s[8] = "-"

\* /^\d{4}-\d{2}-\d{2}$/
IsCanonicalDate(s) == HasDatePrefix(s) /\ Len(s) = 10

\* /^\d{4}-\d{2}-\d{2}T/
IsIsoDateTime(s) == HasDatePrefix(s) /\ Len(s) >= 11 /\ s[11] = "T"

\* Mutant: the year 1900 itself is refused.
InRangeAfter1900(dayNum, monthNum, yearNum) ==
    /\ Ge(dayNum, 1) /\ Le(dayNum, 31)
    /\ Ge(monthNum, 1) /\ Le(monthNum, 12)
    /\ Ge(yearNum, 1901)

\* The range check of the dd/MM/yyyy branch.
InRange(dayNum, monthNum, yearNum) ==
    /\ Ge(dayNum, 1) /\ Le(dayNum, 31)
    /\ Ge(monthNum, 1) /\ Le(monthNum, 12)
    /\ Ge(yearNum, 1900)

\* `${yearNum}-${paddedMonth}-${paddedDay}`
FormatDate(dayNum, monthNum, yearNum) ==
    NumToStr(yearNum.n) \o <<"-">> \o PadStart(NumToStr(monthNum.n), 2)
        \o <<"-">> \o PadStart(NumToStr(dayNum.n), 2)

\* The dd/MM/yyyy branch.
ParseSlashDate(trimmed) ==
    LET parts == Split(trimmed, "/")
    IN  IF Len(parts) # 3 THEN Null
        ELSE LET dayNum == ParseInt(parts[1])
                 monthNum == ParseInt(parts[2])
                 yearNum == ParseInt(parts[3])
             IN  IF InRange(dayNum, monthNum, yearNum)
                 THEN Some(FormatDate(dayNum, monthNum, yearNum))
                 ELSE Null

parseFrenchDate(dateStr) ==
    IF dateStr = <<>> THEN Null
    ELSE LET trimmed == Trim(dateStr)
         IN  IF trimmed = <<>> THEN Null
             ELSE IF IsCanonicalDate(trimmed) THEN Some(trimmed)
             ELSE IF IsIsoDateTime(trimmed) THEN Some(Split(trimmed, "T")[1])
             ELSE ParseSlashDate(trimmed)

(***************************************************************************)
(* The strings put through parseFrenchDate                                 *)
(***************************************************************************)
MaxDay == 32

MaxMonth == 13

Years == {0, 99, 1899, 1900, 2025, 9999, 10000}

\* D/M/Y with integer parts, day and month written plainly or with two digits.
SlashInputs ==
    {[src |-> [kind |-> "dmy", d |-> d, m |-> m, y |-> y],
      in |-> (IF pad THEN PadStart(NumToStr(d), 2) ELSE NumToStr(d)) \o <<"/">>
             \o (IF pad THEN PadStart(NumToStr(m), 2) ELSE NumToStr(m))
             \o <<"/">> \o NumToStr(y)] :
        d \in (0 - 1)..MaxDay, m \in 0..MaxMonth, y \in Years, pad \in BOOLEAN}

\* YYYY-MM-DD, valid as a calendar date or not, bare or between blanks.
CanonicalInputs ==
    {[src |-> [kind |-> "canonical", d |-> d, m |-> m, y |-> y],
      in |-> lead \o PadStart(NumToStr(y), 4) \o <<"-">>
             \o PadStart(NumToStr(m), 2) \o <<"-">> \o PadStart(NumToStr(d), 2)
             \o trail] :
        d \in {0, 30, 99}, m \in {0, 11, 13}, y \in {0, 99, 2025, 9999},
        lead \in {<<>>, <<" ">>}, trail \in {<<>>, <<" ", "\n">>}}

\* YYYY-MM-DDT followed by a time, by nothing or by something else.
DateTimeInputs ==
    {[src |-> [kind |-> "datetime", d |-> d, m |-> m, y |-> 2025],
      in |-> <<"2", "0", "2", "5", "-">> \o PadStart(NumToStr(m), 2) \o <<"-">>
             \o PadStart(NumToStr(d), 2) \o <<"T">> \o tail] :
        d \in {1, 30}, m \in {11, 12},
        tail \in {<<"2", "3", ":", "0", "0", ":", "0", "0", ".", "0", "0", "0", "Z">>,
                  <<>>, <<"x">>}}

\* Strings in none of the forms, and forms close to D/M/Y.
OtherInputs ==
    {[src |-> [kind |-> "other", d |-> 0, m |-> 0, y |-> 0], in |-> t] :
        t \in {<<>>, <<" ">>, <<" ", "\t">>, <<"a", "b", "c">>,
               <<"1", "/", "2">>, <<"1", "/", "2", "/", "2", "0", "2", "5", "/", "4">>,
               <<"a", "/", "b", "/", "c">>, <<"/", "/">>,
               <<"2", "0", "2", "5", "-", "1", "-", "5">>,
               <<"2", "0", "2", "5", "/", "1", "1", "/", "3", "0">>,
               <<"5", "a", "/", "1", "1", "/", "2", "0", "2", "5">>,
               <<" ", "5", "/", "+", "3", "/", "2", "0", "2", "5", "x">>,
               <<"3", "0", "-", "1", "1", "-", "2", "0", "2", "5">>}}

DateInputs == SlashInputs \cup CanonicalInputs \cup DateTimeInputs \cup OtherInputs

IdleDate ==
    [stage |-> 0, src |-> [kind |-> "none", d |-> 0, m |-> 0, y |-> 0],
     in |-> <<>>, out |-> Null, out2 |-> Null]

(***************************************************************************)
(* Date: a time value is a count of days since 1970-01-01 and the          *)
(* milliseconds into that day (time = day * 86400000 + ms)                 *)
(***************************************************************************)
InvalidDate == [valid |-> FALSE, day |-> 0, ms |-> 0]

TimeValue(day, ms) == [valid |-> TRUE, day |-> day, ms |-> ms]

\* The day number of the civil date y-m-d (proleptic Gregorian, y >= 1).
DaysFromCivil(y, m, d) ==
    LET yy == IF m <= 2 THEN y - 1 ELSE y
        era == yy \div 400
        yoe == yy - era * 400
        mp == IF m > 2 THEN m - 3 ELSE m + 9
        doy == (153 * mp + 2) \div 5 + d - 1
        doe == yoe * 365 + yoe \div 4 - yoe \div 100 + doy
    IN  era * 146097 + doe - 719468

\* The civil date of a day number: getUTCFullYear, getUTCMonth() + 1 and
\* getUTCDate.
CivilFromDays(day) ==
    LET z == day + 719468
        era == z \div 146097
        doe == z - era * 146097
        yoe == (doe - doe \div 1460 + doe \div 36524 - doe \div 146096) \div 365
        doy == doe - (365 * yoe + yoe \div 4 - yoe \div 100)
        mp == (5 * doy + 2) \div 153
        d == doy - (153 * mp + 2) \div 5 + 1
        m == IF mp < 10 THEN mp + 3 ELSE mp - 9
    IN  [y |-> IF m <= 2 THEN yoe + era * 400 + 1 ELSE yoe + era * 400,
         m |-> m, d |-> d]

\* s is written YYYY-MM-DDTHH:mm:ss.sssZ
IsUtcTimestamp(s) ==
    /\ Len(s) = 24
    /\ HasDatePrefix(s)
    /\ s[11] = "T" /\ s[14] = ":" /\ s[17] = ":" /\ s[20] = "." /\ s[24] = "Z"
    /\ \A i \in {12, 13, 15, 16, 18, 19, 21, 22, 23} : IsDigit(s[i])

Field(s, from, to) == DigitsValue(SubSeq(s, from, to), 0)

\* new Date(s) for a string s that starts YYYY-MM-DDT: the instant a UTC
\* timestamp names, Invalid Date for a string the engine cannot read.
DateParse(s) ==
    IF ~IsUtcTimestamp(s) THEN InvalidDate
    ELSE LET y == Field(s, 1, 4)
             m == Field(s, 6, 7)
             d == Field(s, 9, 10)
             hh == Field(s, 12, 13)
             mi == Field(s, 15, 16)
             ss == Field(s, 18, 19)
             ms == Field(s, 21, 23)
         IN  IF /\ m >= 1 /\ m <= 12 /\ d >= 1
                /\ DaysFromCivil(y, m, d) <
                      (IF m = 12 THEN DaysFromCivil(y + 1, 1, 1)
                       ELSE DaysFromCivil(y, m + 1, 1))
                /\ hh <= 23 /\ mi <= 59 /\ ss <= 59
             THEN TimeValue(DaysFromCivil(y, m, d),
                            ((hh * 60 + mi) * 60 + ss) * 1000 + ms)
             ELSE InvalidDate

\* new Date(t.getTime() + ms)
AddMs(t, ms) ==
    IF ~t.valid THEN InvalidDate
    ELSE TimeValue(t.day + (t.ms + ms) \div 86400000, (t.ms + ms) % 86400000)

\* date.getTime() + (1 * 60 * 60 * 1000)
MoroccoOffset(t) == AddMs(t, 1 * 60 * 60 * 1000)

Str_NaN == <<"N", "a", "N">>

\* `${year}-${month}-${day}` of the shifted instant's UTC fields
FormatUtcDate(t) ==
    IF ~t.valid
    THEN Str_NaN \o <<"-">> \o PadStart(Str_NaN, 2) \o <<"-">> \o PadStart(Str_NaN, 2)
    ELSE LET c == CivilFromDays(t.day)
         IN  NumToStr(c.y) \o <<"-">> \o PadStart(NumToStr(c.m), 2) \o <<"-">>
                 \o PadStart(NumToStr(c.d), 2)

(***************************************************************************)
(* parseFrenchDate, the variant that shifts a date-time by one hour        *)
(***************************************************************************)
parseFrenchDateShifted(dateStr) ==
    IF dateStr = <<>> THEN Null
    ELSE LET trimmed == Trim(dateStr)
         IN  IF trimmed = <<>> THEN Null
             ELSE IF IsCanonicalDate(trimmed) THEN Some(trimmed)
             ELSE IF IsIsoDateTime(trimmed)
             THEN Some(FormatUtcDate(MoroccoOffset(DateParse(trimmed))))
             ELSE ParseSlashDate(trimmed)

(***************************************************************************)
(* The timestamps put through both variants                                *)
(***************************************************************************)
StampYears == {999, 1900, 2000, 2024, 2025, 9999}

SomeDays == {1, 28, 29, 30, 31}

\* The days of month m of year y, by the calendar's rule.
DaysIn(y, m) ==
    IF m \in {4, 6, 9, 11} THEN 30
    ELSE IF m # 2 THEN 31
    ELSE IF y % 4 = 0 /\ (y % 100 # 0 \/ y % 400 = 0) THEN 29
    ELSE 28

\* YYYY-MM-DDThh:mm:ss.sssZ for the dates of the calendar, every hour.
TimestampInputs ==
    {[src |-> [kind |-> "utc", y |-> y, m |-> m, d |-> d, h |-> h],
      in |-> PadStart(NumToStr(y), 4) \o <<"-">> \o PadStart(NumToStr(m), 2)
             \o <<"-">> \o PadStart(NumToStr(d), 2) \o <<"T">>
             \o PadStart(NumToStr(h), 2) \o rest] :
        <<y, m, d>> \in {c \in StampYears \X (1..12) \X SomeDays :
                             c[3] <= DaysIn(c[1], c[2])},
        h \in 0..23,
        rest \in {<<":", "0", "0", ":", "0", "0", ".", "0", "0", "0", "Z">>,
                  <<":", "5", "9", ":", "5", "9", ".", "9", "9", "9", "Z">>}}

\* A date followed by T and something that is no time.
GarbageInputs ==
    {[src |-> [kind |-> "garbage", y |-> 2025, m |-> 11, d |-> 30, h |-> 0],
      in |-> <<"2", "0", "2", "5", "-", "1", "1", "-", "3", "0", "T", "x">>]}

IdleStamp ==
    [src |-> [kind |-> "none", y |-> 0, m |-> 0, d |-> 0, h |-> 0],
     in |-> <<>>, truncDone |-> FALSE, truncated |-> Null,
     shiftDone |-> FALSE, shifted |-> Null]

(***************************************************************************)
(* emergencyFirebaseRecovery and aggressiveFirebaseRecovery                *)
(***************************************************************************)
MaxDbs == 2

Features == [idb : BOOLEAN, sw : BOOLEAN, caches : BOOLEAN]

\* kind: the function called; pc: where it stands; local, session, workers,
\* caches: what became of each store; reqs: the deleteDatabase requests;
\* has: the APIs the runtime offers; resolved: the promise returned to the
\* caller; reloaded: the page is being loaded anew; bust: with cache_bust.
IdleRecovery ==
    [kind |-> "none", pc |-> "idle", local |-> "untouched",
     session |-> "untouched", reqs |-> <<>>, workers |-> "untouched",
     caches |-> "untouched",
     has |-> [idb |-> FALSE, sw |-> FALSE, caches |-> FALSE],
     resolved |-> FALSE, reloaded |-> FALSE, bust |-> FALSE]

Cleared(ok) == IF ok THEN "cleared" ELSE "failed"

\* emergencyFirebaseRecovery(): each clear() in a try of its own (localOk,
\* sessionOk: it does not throw), then window.location.reload().
emergencyFirebaseRecovery(r, localOk, sessionOk) ==
    [r EXCEPT !.kind = "emergency", !.local = Cleared(localOk),
              !.session = Cleared(sessionOk), !.pc = "reloaded",
              !.reloaded = TRUE]

\* resolve(): clearStorage() is over and its then-callback is queued.
ResolveOuter(r) == [r EXCEPT !.resolved = TRUE, !.pc = "then"]

\* The catch of clearStorage: 'Continue anyway'.
CatchClear(r) == ResolveOuter(r)

\* if ('caches' in window) await caches.keys()
CachesStep(r) ==
    IF r.has.caches THEN [r EXCEPT !.pc = "cacheKeys"] ELSE ResolveOuter(r)

\* if ('serviceWorker' in navigator) await getRegistrations()
WorkersStep(r) ==
    IF r.has.sw THEN [r EXCEPT !.pc = "registrations"] ELSE CachesStep(r)

\* if ('indexedDB' in window) await indexedDB.databases()
IdbStep(r) ==
    IF r.has.idb THEN [r EXCEPT !.pc = "databases"] ELSE WorkersStep(r)

\* clearStorage() up to its first await: one try around every step.
clearStorage(r, localOk, sessionOk) ==
    IF ~localOk THEN CatchClear([r EXCEPT !.local = "failed"])
    ELSE IF ~sessionOk
    THEN CatchClear([r EXCEPT !.local = "cleared", !.session = "failed"])
    ELSE IdbStep([r EXCEPT !.local = "cleared", !.session = "cleared"])

\* indexedDB.databases() resolved with n names: a request for each, awaited
\* together.
DeleteAll(r, n) ==
    IF n = 0 THEN WorkersStep(r)
    ELSE [r EXCEPT !.pc = "deleting", !.reqs = [i \in 1..n |-> "pending"]]

\* Request i comes to outcome o: onsuccess resolves its promise, onerror
\* rejects it, a blocked request has no handler and stays as it is.
DeleteOutcome(r, i, o) ==
    LET q == [r EXCEPT !.reqs[i] = o]
    IN  IF r.pc # "deleting" THEN q
        ELSE IF o = "error" THEN CatchClear(q)
        ELSE IF \A j \in DOMAIN q.reqs : q.reqs[j] = "deleted"
        THEN WorkersStep(q)
        ELSE q

\* The then-callback: window.location.href = the URL with cache_bust.
Reload(r) == [r EXCEPT !.pc = "reloaded", !.reloaded = TRUE, !.bust = TRUE]

(***************************************************************************)
(* searchWorkerInGoogleSheet                                               *)
(***************************************************************************)
\* JSON values as JSON.parse gives them.
JNull == [t |-> "null", s |-> <<>>, n |-> 0, items |-> <<>>]

JStr(s) == [t |-> "str", s |-> s, n |-> 0, items |-> <<>>]

JNum(n) == [t |-> "num", s |-> <<>>, n |-> n, items |-> <<>>]

JBool(b) == [t |-> "bool", s |-> <<>>, n |-> IF b THEN 1 ELSE 0, items |-> <<>>]

JObj == [t |-> "obj", s |-> <<>>, n |-> 0, items |-> <<>>]

JArr(items) == [t |-> "arr", s |-> <<>>, n |-> 0, items |-> items]

\* A value counts as true in a condition.
Truthy(v) ==
    CASE v.t = "null" -> FALSE
      [] v.t = "str" -> v.s # <<>>
      [] v.t = "num" -> v.n # 0
      [] v.t = "bool" -> v.n = 1
      [] OTHER -> TRUE

\* String(v) for the values a cell holds
StringOf(v) ==
    CASE v.t = "str" -> v.s
      [] v.t = "num" -> NumToStr(v.n)
      [] v.t = "bool" -> IF v.n = 1 THEN <<"t", "r", "u", "e">>
                         ELSE <<"f", "a", "l", "s", "e">>
      [] v.t = "null" -> <<"n", "u", "l", "l">>
      [] OTHER -> <<"[", "o", "b", "j", "e", "c", "t", " ",
                    "O", "b", "j", "e", "c", "t", "]">>

\* String(v || '')
StringOrEmpty(v) == IF Truthy(v) THEN StringOf(v) ELSE <<>>

\* toUpperCase, on the letters that decide convertGenderCode
ToUpper(s) ==
    [i \in 1..Len(s) |-> CASE s[i] = "h" -> "H" [] s[i] = "m" -> "M" [] OTHER -> s[i]]

convertGenderCode(code) ==
    LET upperCode == Trim(ToUpper(StringOrEmpty(code)))
    IN  IF upperCode = <<"H">> THEN <<"h", "o", "m", "m", "e">>
        ELSE IF upperCode = <<"M">> THEN <<"f", "e", "m", "m", "e">>
        ELSE <<>>

\* The fewest fields a row may have.
MinFields == 14

\* row[i], i counted from 0 as in the source
Cell(row, i) == row.items[i + 1]

NoWorker ==
    [matricule |-> <<>>, nom_complet |-> <<>>, cin |-> <<>>, sexe |-> <<>>,
     date_entree |-> <<>>]

\* Mutant: the name is read from column 1.
MapRowNameFromColumn1(row) ==
    [matricule |-> StringOrEmpty(Cell(row, 0)),
     nom_complet |-> StringOrEmpty(Cell(row, 1)),
     cin |-> StringOrEmpty(Cell(row, 3)),
     sexe |-> convertGenderCode(Cell(row, 4)),
     date_entree |-> StringOrEmpty(Cell(row, 13))]

\* The worker built from a row.
MapRow(row) ==
    [matricule |-> StringOrEmpty(Cell(row, 0)),
     nom_complet |-> StringOrEmpty(Cell(row, 2)),
     cin |-> StringOrEmpty(Cell(row, 3)),
     sexe |-> convertGenderCode(Cell(row, 4)),
     date_entree |-> StringOrEmpty(Cell(row, 13))]

ReturnNull == [kind |-> "null", worker |-> NoWorker]

ReturnWorker(w) == [kind |-> "worker", worker |-> w]

Throw == [kind |-> "throw", worker |-> NoWorker]

\* From `const row = data[0]` to `return worker`.
FromData(data) ==
    LET row == data.items[1]
    IN  IF row.t # "arr" \/ Len(row.items) < MinFields THEN ReturnNull
        ELSE LET worker == MapRow(row)
             IN  IF worker.matricule = <<>> /\ worker.cin = <<>>
                 THEN ReturnNull
                 ELSE ReturnWorker(worker)

\* The try block, from the settled fetch on.
TryBlock(upstream) ==
    IF upstream.kind = "rejected" THEN Throw
    ELSE IF ~upstream.ok THEN ReturnNull
    ELSE IF upstream.body.kind = "unreadable" THEN Throw
    ELSE IF upstream.body.kind = "empty" THEN ReturnNull
    ELSE IF upstream.body.kind = "malformed" THEN Throw
    ELSE LET data == upstream.body.value
         IN  IF ~Truthy(data) \/ data.t # "arr" \/ Len(data.items) = 0
             THEN ReturnNull
             ELSE FromData(data)

\* Mutant: no catch block.
CatchlessBlock(outcome) == outcome

\* The catch block: whatever was thrown, null is returned.
CatchBlock(outcome) == IF outcome.kind = "throw" THEN ReturnNull ELSE outcome

(***************************************************************************)
(* The search values and the answers of the endpoint                       *)
(***************************************************************************)
MaxRows == 2

MaxRowLen == 15

Str_M123 == <<"M", "1", "2", "3">>

Str_JaneDoe == <<"J", "a", "n", "e", " ", "D", "o", "e">>

Str_CIN99 == <<"C", "I", "N", "9", "9">>

Str_15_06_2020 == <<"1", "5", "/", "0", "6", "/", "2", "0", "2", "0">>

Str_2020_06_15 == <<"2", "0", "2", "0", "-", "0", "6", "-", "1", "5">>

SearchValues == {<<>>, <<" ", " ">>, Str_M123, <<" ">> \o Str_CIN99 \o <<" ">>}

MakeRow(len, f0, f2, f3, f4, f13) ==
    JArr([i \in 1..len |->
            CASE i = 1 -> f0
              [] i = 3 -> f2
              [] i = 4 -> f3
              [] i = 5 -> f4
              [] i = 14 -> f13
              [] OTHER -> JStr(<<"x">>)])

ArrayRows ==
    {MakeRow(len, f0, f2, f3, f4, f13) :
        len \in {0, MinFields - 1, MinFields, MaxRowLen},
        f0 \in {JStr(<<>>), JStr(Str_M123), JNull, JNum(0), JNum(123)},
        f2 \in {JStr(Str_JaneDoe), JStr(<<>>)},
        f3 \in {JStr(<<>>), JStr(Str_CIN99), JNull},
        f4 \in {JStr(<<"H">>), JStr(<<" ", "m">>), JStr(<<>>)},
        f13 \in {JStr(Str_15_06_2020), JStr(Str_2020_06_15), JStr(<<>>), JNull}}

FirstRows == ArrayRows \cup {JNull, JStr(Str_M123), JObj}

\* A well-formed row of another worker, for the rows after the first.
OtherRow ==
    MakeRow(MinFields, JStr(<<"M", "9">>), JStr(<<"Z">>), JStr(<<"C", "9">>),
            JStr(<<"M">>), JStr(Str_2020_06_15))

RowLists ==
    {<<>>} \cup {<<r>> \o [i \in 1..k |-> OtherRow] :
                    r \in FirstRows, k \in 0..(MaxRows - 1)}

Bodies ==
    {[kind |-> k, value |-> JNull] : k \in {"empty", "malformed", "unreadable"}}
    \cup {[kind |-> "json", value |-> v] :
            v \in {JNull, JNum(0), JNum(7), JStr(<<"x">>), JBool(TRUE), JObj}}
    \cup {[kind |-> "json", value |-> JArr(rows)] : rows \in RowLists}

NoBody == [kind |-> "empty", value |-> JNull]

GoodBody == [kind |-> "json", value |-> JArr(<<OtherRow>>)]

\* A rejected fetch, a non-2xx answer (whatever its body), a 2xx answer.
Upstreams ==
    {[kind |-> "rejected", ok |-> FALSE, body |-> NoBody],
     [kind |-> "response", ok |-> FALSE, body |-> NoBody],
     [kind |-> "response", ok |-> FALSE, body |-> GoodBody]}
    \cup {[kind |-> "response", ok |-> TRUE, body |-> b] : b \in Bodies}

IdleLookup ==
    [stage |-> "idle", searchValue |-> <<>>, fetches |-> 0,
     upstream |-> [kind |-> "none", ok |-> FALSE, body |-> NoBody],
     outcome |-> ReturnNull]

ProbeInit ==
    /\ online \in BOOLEAN
    /\ currentUser \in BOOLEAN
    /\ probe = [p \in Probes |-> IdleProbe]

\* One probe sequence, every error of the remote check possible.
Init ==
    /\ ProbeInit
    /\ slots = {1}
    /\ faults = Errors
    /\ lookup = IdleLookup
    /\ date = IdleDate
    /\ stamp = IdleStamp
    /\ recovery = IdleRecovery

Next ==
    \/ \E p \in Probes : Call(p)
    \/ \E p \in Probes : OnlineEvent(p)
    \/ OnlineEventUnfollowed
    \/ GoOffline
    \/ SignIn
    \/ SignOut
    \/ \E p \in Probes : EnableSettles(p)
    \/ \E p \in Probes : GetDocResolves(p)
    \/ \E p \in Probes : GetDocRejects(p)
    \/ \E p \in Probes : TimerFires(p)
    \/ \E p \in Probes : BackoffElapses(p)
    \/ \E p \in Probes : LateGetDocSettles(p)
    \/ \E p \in Probes : LateTimerFires(p)

Spec == Init /\ [][Next]_vars

\* 'online' events in quick succession: as many probe sequences followed as
\* there are slots, a session present, the remote check answering or not.
\* The contenders that lose a race stay pending.
InitOverlap ==
    /\ online = FALSE
    /\ currentUser = TRUE
    /\ probe = [p \in Probes |-> IdleProbe]
    /\ slots = Probes
    /\ faults = {}
    /\ lookup = IdleLookup
    /\ date = IdleDate
    /\ stamp = IdleStamp
    /\ recovery = IdleRecovery

NextOverlap ==
    \/ \E p \in Probes : OnlineEvent(p)
    \/ OnlineEventUnfollowed
    \/ GoOffline
    \/ \E p \in Probes : EnableSettles(p)
    \/ \E p \in Probes : GetDocResolves(p)
    \/ \E p \in Probes : TimerFires(p)
    \/ \E p \in Probes : BackoffElapses(p)

SpecOverlap == InitOverlap /\ [][NextOverlap]_vars

(***************************************************************************)
(* parseFrenchDate applied to a string, and to its own result              *)
(***************************************************************************)
Normalize ==
    /\ date.stage = 0
    /\ date' = [date EXCEPT !.stage = 1, !.out = parseFrenchDate(date.in)]
    /\ UNCHANGED <<online, currentUser, slots, faults, probe, lookup, stamp, recovery>>

NormalizeAgain ==
    /\ date.stage = 1
    /\ ~date.out.null
    /\ date' = [date EXCEPT !.stage = 2, !.out2 = parseFrenchDate(date.out.str)]
    /\ UNCHANGED <<online, currentUser, slots, faults, probe, lookup, stamp, recovery>>

InitDate ==
    /\ online = TRUE
    /\ currentUser = FALSE
    /\ slots = {}
    /\ faults = {}
    /\ probe = [p \in Probes |-> IdleProbe]
    /\ lookup = IdleLookup
    /\ \E i \in DateInputs : date = [IdleDate EXCEPT !.src = i.src, !.in = i.in]
    /\ stamp = IdleStamp
    /\ recovery = IdleRecovery

NextDate == Normalize \/ NormalizeAgain

SpecDate == InitDate /\ [][NextDate]_vars

(***************************************************************************)
(* A call of searchWorkerInGoogleSheet                                     *)
(***************************************************************************)
\* The call up to `await fetch`: an empty search value returns null at once.
Search ==
    /\ lookup.stage = "idle"
    /\ \E v \in SearchValues :
          lookup' = IF v = <<>> \/ Len(Trim(v)) = 0
                    THEN [lookup EXCEPT !.stage = "done", !.searchValue = v,
                                        !.outcome = ReturnNull]
                    ELSE [lookup EXCEPT !.stage = "fetching", !.searchValue = v,
                                        !.fetches = @ + 1]
    /\ UNCHANGED <<online, currentUser, slots, faults, probe, date, stamp, recovery>>

\* fetch settles; the rest of the function runs to its return.
FetchSettles ==
    /\ lookup.stage = "fetching"
    /\ \E u \in Upstreams :
          lookup' = [lookup EXCEPT !.stage = "done", !.upstream = u,
                                   !.outcome = CatchBlock(TryBlock(u))]
    /\ UNCHANGED <<online, currentUser, slots, faults, probe, date, stamp, recovery>>

InitLookup ==
    /\ online = TRUE
    /\ currentUser = FALSE
    /\ slots = {}
    /\ faults = {}
    /\ probe = [p \in Probes |-> IdleProbe]
    /\ lookup = IdleLookup
    /\ date = IdleDate
    /\ stamp = IdleStamp
    /\ recovery = IdleRecovery

NextLookup == Search \/ FetchSettles

SpecLookup == InitLookup /\ [][NextLookup]_vars

(***************************************************************************)
(* A timestamp through the truncating and the shifting parseFrenchDate     *)
(***************************************************************************)
TruncateStamp ==
    /\ ~stamp.truncDone
    /\ stamp' = [stamp EXCEPT !.truncDone = TRUE,
                              !.truncated = parseFrenchDate(stamp.in)]
    /\ UNCHANGED <<online, currentUser, slots, faults, probe, lookup, date,
                   recovery>>

ShiftStamp ==
    /\ ~stamp.shiftDone
    /\ stamp' = [stamp EXCEPT !.shiftDone = TRUE,
                              !.shifted = parseFrenchDateShifted(stamp.in)]
    /\ UNCHANGED <<online, currentUser, slots, faults, probe, lookup, date,
                   recovery>>

InitStamp ==
    /\ online = TRUE
    /\ currentUser = FALSE
    /\ slots = {}
    /\ faults = {}
    /\ probe = [p \in Probes |-> IdleProbe]
    /\ lookup = IdleLookup
    /\ date = IdleDate
    /\ recovery = IdleRecovery
    /\ \E i \in TimestampInputs \cup GarbageInputs :
          stamp = [IdleStamp EXCEPT !.src = i.src, !.in = i.in]

NextStamp == TruncateStamp \/ ShiftStamp

SpecStamp == InitStamp /\ [][NextStamp]_vars

(***************************************************************************)
(* The recovery procedures: one call, the runtime's stores failing or not  *)
(***************************************************************************)
CallEmergency ==
    /\ recovery.pc = "idle"
    /\ \E localOk, sessionOk \in BOOLEAN :
          recovery' = emergencyFirebaseRecovery(recovery, localOk, sessionOk)
    /\ UNCHANGED <<online, currentUser, slots, faults, probe, lookup, date,
                   stamp>>

CallAggressive ==
    /\ recovery.pc = "idle"
    /\ \E localOk, sessionOk \in BOOLEAN, h \in Features :
          recovery' = clearStorage([recovery EXCEPT !.kind = "aggressive",
                                                    !.has = h],
                                   localOk, sessionOk)
    /\ UNCHANGED <<online, currentUser, slots, faults, probe, lookup, date,
                   stamp>>

\* indexedDB.databases() resolves with n names or rejects.
DatabasesSettles ==
    /\ recovery.pc = "databases"
    /\ \/ \E n \in 0..MaxDbs : recovery' = DeleteAll(recovery, n)
       \/ recovery' = CatchClear(recovery)
    /\ UNCHANGED <<online, currentUser, slots, faults, probe, lookup, date,
                   stamp>>

\* A deleteDatabase request succeeds, fails, or is blocked by a connection
\* to the database that stays open.
DeleteSettles(i) ==
    /\ ~recovery.reloaded
    /\ i \in DOMAIN recovery.reqs
    /\ recovery.reqs[i] = "pending"
    /\ \E o \in {"deleted", "error", "blocked"} :
          recovery' = DeleteOutcome(recovery, i, o)
    /\ UNCHANGED <<online, currentUser, slots, faults, probe, lookup, date,
                   stamp>>

\* The connections that blocked request i are closed: the request goes on.
ConnectionsClose(i) ==
    /\ ~recovery.reloaded
    /\ i \in DOMAIN recovery.reqs
    /\ recovery.reqs[i] = "blocked"
    /\ \E o \in {"deleted", "error"} :
          recovery' = DeleteOutcome(recovery, i, o)
    /\ UNCHANGED <<online, currentUser, slots, faults, probe, lookup, date,
                   stamp>>

\* navigator.serviceWorker.getRegistrations() resolves or rejects.
RegistrationsSettles ==
    /\ recovery.pc = "registrations"
    /\ \/ recovery' = [recovery EXCEPT !.pc = "unregistering"]
       \/ recovery' = CatchClear([recovery EXCEPT !.workers = "failed"])
    /\ UNCHANGED <<online, currentUser, slots, faults, probe, lookup, date,
                   stamp>>

\* Promise.all of the unregister() calls resolves or rejects.
UnregisterSettles ==
    /\ recovery.pc = "unregistering"
    /\ \/ recovery' = CachesStep([recovery EXCEPT !.workers = "cleared"])
       \/ recovery' = CatchClear([recovery EXCEPT !.workers = "failed"])
    /\ UNCHANGED <<online, currentUser, slots, faults, probe, lookup, date,
                   stamp>>

\* caches.keys() resolves or rejects.
CacheKeysSettles ==
    /\ recovery.pc = "cacheKeys"
    /\ \/ recovery' = [recovery EXCEPT !.pc = "cacheDeleting"]
       \/ recovery' = CatchClear([recovery EXCEPT !.caches = "failed"])
    /\ UNCHANGED <<online, currentUser, slots, faults, probe, lookup, date,
                   stamp>>

\* Promise.all of the caches.delete() calls resolves or rejects.
CacheDeleteSettles ==
    /\ recovery.pc = "cacheDeleting"
    /\ \/ recovery' = ResolveOuter([recovery EXCEPT !.caches = "cleared"])
       \/ recovery' = CatchClear([recovery EXCEPT !.caches = "failed"])
    /\ UNCHANGED <<online, currentUser, slots, faults, probe, lookup, date,
                   stamp>>

\* clearStorage().then(...) runs its callback.
Navigate ==
    /\ recovery.pc = "then"
    /\ recovery' = Reload(recovery)
    /\ UNCHANGED <<online, currentUser, slots, faults, probe, lookup, date,
                   stamp>>

InitRecovery ==
    /\ online = TRUE
    /\ currentUser = FALSE
    /\ slots = {}
    /\ faults = {}
    /\ probe = [p \in Probes |-> IdleProbe]
    /\ lookup = IdleLookup
    /\ date = IdleDate
    /\ stamp = IdleStamp
    /\ recovery = IdleRecovery

NextRecovery ==
    \/ CallEmergency
    \/ CallAggressive
    \/ DatabasesSettles
    \/ \E i \in 1..MaxDbs : DeleteSettles(i)
    \/ \E i \in 1..MaxDbs : ConnectionsClose(i)
    \/ RegistrationsSettles
    \/ UnregisterSettles
    \/ CacheKeysSettles
    \/ CacheDeleteSettles
    \/ Navigate

\* Every promise of the runtime that is awaited settles and every queued
\* callback runs; nothing makes a connection that blocks a deletion close.
FairRecovery ==
    /\ WF_vars(DatabasesSettles)
    /\ \A i \in 1..MaxDbs : WF_vars(DeleteSettles(i))
    /\ WF_vars(RegistrationsSettles)
    /\ WF_vars(UnregisterSettles)
    /\ WF_vars(CacheKeysSettles)
    /\ WF_vars(CacheDeleteSettles)
    /\ WF_vars(Navigate)

SpecRecovery == InitRecovery /\ [][NextRecovery]_vars /\ FairRecovery

(***************************************************************************)
(* Claims about the connectivity probe                                     *)
(***************************************************************************)
\* The step in which probe p runs an attempt (a call of
\* testFirebaseConnection, the first one or a retry).
AttemptStep(p) == probe'[p].attempts = probe[p].attempts + 1

\* The step in which the attempt of probe p that awaits its race fails.
FailureStep(p) ==
    /\ probe[p].pc = "race"
    /\ probe'[p].pc # "race"
    /\ ~(probe'[p].pc = "done" /\ probe'[p].result.success)

\* Probe p is over, each of its attempts ran the remote check and lost it to
\* a timeout.
AllTimedOut(p) ==
    /\ probe[p].pc = "done"
    /\ probe[p].onlyTimeouts
    /\ probe[p].attempts = probe[p].getDocCalls
    /\ ~probe[p].result.success

\* C1: when every attempt of a probe call times out (session present, device
\* online), the waits between attempts are exactly 2 s, 4 s, 8 s and the
\* fourth attempt's failure is reported as {success: false}; a probe call
\* never makes more than 3 retries nor more than 4 remote existence checks.
C1_BackoffSequence ==
    \A p \in Probes :
        /\ probe[p].retryCount <= 3
        /\ probe[p].attempts <= 4
        /\ probe[p].getDocCalls <= 4
        /\ Len(probe[p].waits) <= 3
        /\ \A i \in 1..Len(probe[p].waits) :
              probe[p].waits[i] = <<2000, 4000, 8000>>[i]
        /\ AllTimedOut(p) =>
              /\ probe[p].waits = <<2000, 4000, 8000>>
              /\ probe[p].getDocCalls = 4
              /\ probe[p].retryCount = 3
              /\ probe[p].result = Failure(TimeoutMsg)

C1_Witness ==
    \E p \in Probes :
        /\ AllTimedOut(p)
        /\ probe[p].getDocCalls = 4
        /\ probe[p].waits = <<2000, 4000, 8000>>
        /\ probe[p].lateGetDocs > 0

\* C2: an attempt that fails with code 'permission-denied' or
\* 'failed-precondition', at any retry count, ends the probe at once with the
\* message of that code: no backoff wait is added for that failure and no
\* further attempt or remote check follows it.
C2_TerminalCodes ==
    \A p \in Probes :
        probe[p].err.code \in {"permission-denied", "failed-precondition"} =>
            /\ probe[p].pc = "done"
            /\ probe[p].result =
                  Failure(IF probe[p].err.code = "permission-denied"
                          THEN PermissionMsg ELSE PreconditionMsg)
            /\ Len(probe[p].waits) = probe[p].retryCount
            /\ probe[p].attempts = probe[p].retryCount + 1
            /\ probe[p].getDocCalls = probe[p].retryCount + 1

C2_Witness ==
    \E p \in Probes :
        /\ probe[p].err = [code |-> "failed-precondition", msg |-> "timeout"]
        /\ probe[p].retryCount = 2
        /\ probe[p].result = Failure(PreconditionMsg)

\* C3 as stated: an attempt run while no session exists always reports
\* success and never invokes the remote existence check.
C3_Original ==
    [][\A p \in Probes :
          (AttemptStep(p) /\ ~currentUser) =>
              /\ probe'[p].pc = "done"
              /\ probe'[p].result = Success
              /\ probe'[p].getDocCalls = probe[p].getDocCalls]_vars

\* C3 as amended: an attempt run while no session exists never invokes the
\* remote existence check and ends the probe, with success when the device is
\* online and with the 'Device is offline' failure when it is not.
C3_NoSession ==
    [][\A p \in Probes :
          (AttemptStep(p) /\ ~currentUser) =>
              /\ probe'[p].pc = "done"
              /\ probe'[p].result =
                    (IF online THEN Success ELSE Failure(OfflineMsg))
              /\ probe'[p].getDocCalls = probe[p].getDocCalls]_vars

C3_Witness ==
    \E p \in Probes :
        /\ ~currentUser
        /\ online
        /\ probe[p].pc = "done"
        /\ probe[p].attempts = 1
        /\ probe[p].getDocCalls = 0
        /\ probe[p].result = Success

\* The failure is one the claim calls a timeout or a transport failure: its
\* message names a timeout or the fetch, and it is no permission or
\* precondition failure.
TimeoutOrTransport(e) ==
    /\ e.msg \in {"timeout", "fetch"}
    /\ e.code \notin {"permission-denied", "failed-precondition"}

\* C4 as stated: a timeout or transport failure with fewer than 3 retries
\* made is followed by another attempt; no other failure is retried.
C4_Original ==
    [][\A p \in Probes :
          FailureStep(p) =>
              (probe'[p].pc = "backoff" <=>
                  (TimeoutOrTransport(probe'[p].err)
                      /\ probe[p].retryCount < 3))]_vars

\* C4 as amended: a failure whose message names a timeout or the fetch, and
\* whose code is none of 'permission-denied', 'failed-precondition' and
\* 'unavailable', is followed by another attempt when fewer than 3 retries
\* have been made (the backoff wait is entered, and what follows it is the
\* next attempt); every other failure ends the probe.
C4_RetryCondition ==
    [][\A p \in Probes :
          /\ FailureStep(p) =>
                /\ probe'[p].pc \in {"backoff", "done"}
                /\ probe'[p].pc = "backoff" <=>
                      (/\ probe'[p].err.msg \in {"timeout", "fetch"}
                       /\ probe'[p].err.code \notin
                             {"permission-denied", "failed-precondition",
                              "unavailable"}
                       /\ probe[p].retryCount < 3)
          /\ (probe[p].pc = "backoff" /\ probe'[p].pc # "backoff") =>
                /\ AttemptStep(p)
                /\ probe'[p].retryCount = probe[p].retryCount + 1]_vars

C4_Witness ==
    \E p \in Probes :
        /\ probe[p].pc = "backoff"
        /\ probe[p].err = [code |-> "deadline-exceeded", msg |-> "fetch"]
        /\ probe[p].retryCount = 2

\* C5: an attempt that starts while navigator.onLine is false ends the probe
\* at once with {success: false, error: 'Device is offline'}, with or without
\* a session: no remote check, no retry, no backoff wait.
C5_Offline ==
    [][\A p \in Probes :
          (AttemptStep(p) /\ ~online) =>
              /\ probe'[p].pc = "done"
              /\ probe'[p].result = Failure(OfflineMsg)
              /\ probe'[p].getDocCalls = probe[p].getDocCalls
              /\ probe'[p].waits = probe[p].waits]_vars

C5_Witness ==
    \E p \in Probes :
        /\ ~online
        /\ ~currentUser
        /\ probe[p].pc = "done"
        /\ probe[p].attempts = 1
        /\ probe[p].result = Failure(OfflineMsg)

\* C6: on an 'online' event the network layer is re-enabled first and the
\* probe is invoked only once that has settled, exactly once per event and
\* also when enabling failed; the outcome is logged and reaches no caller.
C6_Recovery ==
    \A p \in Probes :
        probe[p].origin = "online" =>
            /\ probe[p].calls <= 1
            /\ probe[p].calls = 1 <=> probe[p].enable \in {"ok", "failed"}
            /\ probe[p].attempts >= 1 => probe[p].calls = 1
            /\ probe[p].pc = "enable" <=> probe[p].enable = "pending"
            /\ probe[p].returned = NoResult
            /\ probe[p].pc = "done" => probe[p].logged = probe[p].result
            /\ probe[p].pc # "done" => probe[p].logged = NoResult

C6_Witness ==
    \E p \in Probes :
        /\ probe[p].origin = "online"
        /\ probe[p].enable = "failed"
        /\ probe[p].calls = 1
        /\ probe[p].pc = "done"
        /\ probe[p].logged = Failure(TimeoutMsg)

(***************************************************************************)
(* Claims about parseFrenchDate                                            *)
(***************************************************************************)
\* C9: parseFrenchDate is idempotent: a string already of the form
\* YYYY-MM-DD comes back unchanged, every result is of the form YYYY-MM-DD,
\* and normalizing a result gives that result again.
C9_Idempotent ==
    /\ date.stage >= 1 =>
          /\ IsCanonicalDate(date.in) => date.out = Some(date.in)
          /\ ~date.out.null => IsCanonicalDate(date.out.str)
    /\ date.stage = 2 => date.out2 = date.out

\* n in 0..99 written with two digits
TwoDigits(n) == <<Digits[(n \div 10) + 1], Digits[(n % 10) + 1]>>

\* What C10 says D/M/Y gives.
ExpectedSlash(d, m, y) ==
    IF d >= 1 /\ d <= 31 /\ m >= 1 /\ m <= 12 /\ y >= 1900
    THEN Some(NumToStr(y) \o <<"-">> \o TwoDigits(m) \o <<"-">> \o TwoDigits(d))
    ELSE Null

HasFirstRow ==
    /\ lookup.stage = "done"
    /\ lookup.upstream.kind = "response"
    /\ lookup.upstream.ok
    /\ lookup.upstream.body.kind = "json"
    /\ lookup.upstream.body.value.t = "arr"
    /\ lookup.upstream.body.value.items # <<>>

FirstRow == lookup.upstream.body.value.items[1]

\* The case of C7: a first row of at least 14 fields whose field 0 or
\* field 3 is not empty.
UsableFirstRow ==
    /\ HasFirstRow
    /\ FirstRow.t = "arr"
    /\ Len(FirstRow.items) >= 14
    /\ Truthy(FirstRow.items[1]) \/ Truthy(FirstRow.items[4])

NoFailureCause ==
    /\ HasFirstRow
    /\ FirstRow.t = "arr"
    /\ Len(FirstRow.items) >= 14
    /\ StringOrEmpty(FirstRow.items[1]) # <<>>
          \/ StringOrEmpty(FirstRow.items[4]) # <<>>

\* C8: the call never throws; it returns a record exactly when the fetch
\* resolved with a 2xx status and a JSON array whose first row is an array
\* of at least 14 fields with a matricule or a national id, and null for
\* every other answer of the endpoint and for a rejected fetch.
C8_NullOnEveryFailure ==
    lookup.stage = "done" =>
        /\ lookup.outcome.kind \in {"null", "worker"}
        /\ lookup.outcome.kind = "worker" <=> NoFailureCause
        /\ lookup.outcome.kind = "null" => lookup.outcome.worker = NoWorker

C8_Witness ==
    /\ lookup.stage = "done"
    /\ lookup.fetches = 1
    /\ lookup.upstream.kind = "response"
    /\ lookup.upstream.ok
    /\ lookup.upstream.body.kind = "malformed"
    /\ lookup.outcome = ReturnNull

(***************************************************************************)
(* Claims about the two variants of parseFrenchDate                        *)
(***************************************************************************)
\* n written with at least four digits
FourDigits(n) ==
    <<Digits[((n \div 1000) % 10) + 1], Digits[((n \div 100) % 10) + 1],
      Digits[((n \div 10) % 10) + 1], Digits[(n % 10) + 1]>>

\* The calendar day after y-m-d, written as the shifting variant writes it.
NextDayText(y, m, d) ==
    LET last == d = DaysIn(y, m)
        ny == IF last /\ m = 12 THEN y + 1 ELSE y
        nm == IF ~last THEN m ELSE IF m = 12 THEN 1 ELSE m + 1
        nd == IF last THEN 1 ELSE d + 1
    IN  NumToStr(ny) \o <<"-">> \o TwoDigits(nm) \o <<"-">> \o TwoDigits(nd)

BothDone == stamp.truncDone /\ stamp.shiftDone /\ stamp.src.kind = "utc"

\* C11: for a valid UTC timestamp YYYY-MM-DDThh:mm:ss.sssZ the shifting and
\* the truncating parseFrenchDate return the same date when hh <= 22 and
\* different dates when hh = 23, the shifting one then returning the next
\* calendar day, across the end of a month and of a year.
C11_ShiftVersusTruncate ==
    BothDone =>
        /\ stamp.truncated =
              Some(FourDigits(stamp.src.y) \o <<"-">> \o TwoDigits(stamp.src.m)
                      \o <<"-">> \o TwoDigits(stamp.src.d))
        /\ stamp.src.h <= 22 => stamp.shifted = stamp.truncated
        /\ stamp.src.h = 23 =>
              /\ stamp.shifted # stamp.truncated
              /\ stamp.shifted =
                    Some(NextDayText(stamp.src.y, stamp.src.m, stamp.src.d))

\* The same, for the years that are written with four digits unpadded.
C11_From1000 == stamp.src.y >= 1000 => C11_ShiftVersusTruncate

C11_Witness ==
    /\ BothDone
    /\ stamp.in = <<"2", "0", "2", "5", "-", "1", "1", "-", "3", "0", "T",
                    "2", "3", ":", "0", "0", ":", "0", "0", ".", "0", "0", "0", "Z">>
    /\ stamp.shifted = Some(<<"2", "0", "2", "5", "-", "1", "2", "-", "0", "1">>)
    /\ stamp.truncated = Some(<<"2", "0", "2", "5", "-", "1", "1", "-", "3", "0">>)

(***************************************************************************)
(* Claims about the race of the remote check and the timer                 *)
(***************************************************************************)
\* Probe p with the count of contenders still to settle left out.
Outcome(pr) == [pr EXCEPT !.lateGetDocs = 0, !.lateTimers = 0]

\* The step in which a contender that lost its race settles.
LoserStep(p) ==
    \/ probe'[p].lateGetDocs < probe[p].lateGetDocs
    \/ probe'[p].lateTimers < probe[p].lateTimers

\* C12: in an attempt the remote check races the 30 s timer and the first
\* to settle decides: when the remote check settles first (the timer is left
\* to fire later) the attempt is a success or the failure the check
\* rejected with; when the timer fires first (the check is left running) the
\* attempt is a timeout failure; and the later settling of the loser, be it
\* the timer's rejection or the check's success or failure, changes neither
\* the attempt's outcome nor the probe's result nor anything else.
C12_FirstToSettleDecides ==
    [][\A p \in Probes :
          /\ probe[p].pc = "race" /\ probe'[p] # probe[p] /\ ~LoserStep(p) =>
                \/ /\ probe'[p].lateTimers = probe[p].lateTimers + 1
                   /\ probe'[p].lateGetDocs = probe[p].lateGetDocs
                   /\ \/ probe'[p].pc = "done" /\ probe'[p].result = Success
                      \/ probe'[p].err \in faults /\ probe'[p].pc # "race"
                \/ /\ probe'[p].lateGetDocs = probe[p].lateGetDocs + 1
                   /\ probe'[p].lateTimers = probe[p].lateTimers
                   /\ probe'[p].err = TimeoutError
                   /\ \/ probe'[p].pc = "backoff"
                      \/ /\ probe'[p].pc = "done"
                         /\ probe'[p].result = Failure(TimeoutMsg)
          /\ LoserStep(p) =>
                /\ Outcome(probe'[p]) = Outcome(probe[p])
                /\ probe[p].lateGetDocs + probe[p].lateTimers =
                      probe'[p].lateGetDocs + probe'[p].lateTimers + 1
                /\ UNCHANGED <<online, currentUser>>]_vars

\* A probe whose first attempt lost the remote check to the timer and whose
\* second attempt won it, after both losers have settled: still a success.
C12_Witness ==
    \E p \in Probes :
        /\ probe[p].pc = "done"
        /\ probe[p].result = Success
        /\ probe[p].attempts = 2 /\ probe[p].getDocCalls = 2
        /\ probe[p].err = TimeoutError
        /\ probe[p].waits = <<BackoffDelay(0)>>
        /\ probe[p].lateGetDocs = 0 /\ probe[p].lateTimers = 0

(***************************************************************************)
(* Claims about overlapping probe sequences                                *)
(***************************************************************************)
\* A probe sequence that has started and is not over.
InFlight(pr) == pr.pc \in {"enable", "race", "backoff"}

\* C13: the 'online' listener has no in-flight guard: an 'online' event
\* starts a probe sequence of its own whatever the sequences started by
\* earlier events are doing (two or more in flight at once is reachable), a
\* step of one sequence leaves every other as it is, and each sequence's
\* retry count is the number of backoff waits of that sequence alone.
C13_NoInFlightGuard ==
    [][/\ ~online /\ online' /\ (\E p \in slots : probe[p].pc = "idle") =>
             \E p \in slots :
                 /\ probe[p].pc = "idle"
                 /\ probe'[p].pc = "enable" /\ probe'[p].origin = "online"
                 /\ \A q \in Probes \ {p} : probe'[q] = probe[q]
       /\ \A p \in Probes : probe'[p] # probe[p] =>
             \A q \in Probes \ {p} : probe'[q] = probe[q]
       /\ \A p \in Probes : probe'[p].pc \in {"race", "backoff"} =>
             /\ probe'[p].retryCount = Len(probe'[p].waits) -
                    (IF probe'[p].pc = "backoff" THEN 1 ELSE 0)
             /\ probe'[p].attempts = probe'[p].retryCount + 1]_vars

\* Two sequences started by 'online' events in flight at once, one waiting
\* before its third retry, the other awaiting its first remote check.
C13_Witness ==
    \E p, q \in Probes :
        /\ probe[p].origin = "online" /\ probe[q].origin = "online"
        /\ probe[p].pc = "backoff" /\ probe[p].retryCount = 2
        /\ probe[q].pc = "race" /\ probe[q].retryCount = 0

(***************************************************************************)
(* Claims about the recovery procedures                                    *)
(***************************************************************************)
\* A deletion of the aggressive recovery is awaited and blocked.
AwaitsBlocked ==
    /\ recovery.pc = "deleting"
    /\ \E i \in DOMAIN recovery.reqs : recovery.reqs[i] = "blocked"

\* C14: every call of emergencyFirebaseRecovery or
\* aggressiveFirebaseRecovery eventually triggers the page reload, whichever
\* storage-clearing step fails; a failed step never prevents the reload.
C14_EventuallyReloads == (recovery.kind # "none") ~> recovery.reloaded

\* The same, short of a deletion that stays blocked.
C14_ReloadsUnlessBlocked ==
    (recovery.kind # "none") ~> (recovery.reloaded \/ AwaitsBlocked)

\* The emergency recovery has reloaded when it returns.
C14_EmergencyReloads == recovery.kind = "emergency" => recovery.reloaded

(***************************************************************************)
(* Claims about the environment changing between attempts                  *)
(***************************************************************************)
\* The step in which probe p leaves a backoff wait for its next attempt.
RetryStep(p) == probe[p].pc = "backoff" /\ AttemptStep(p)

\* C15: a retry attempt reads the online flag and then the session anew
\* before anything else: after a backoff wait during which the device went
\* offline the probe ends with 'Device is offline'; after one during which
\* the session disappeared it ends with success, although every remote
\* check the probe call ran had failed; only with both still there is the
\* remote check run again.  In each case the retry count goes up by one.
C15_RetryRereads ==
    [][\A p \in Probes :
          RetryStep(p) =>
              /\ probe[p].getDocCalls = Len(probe[p].waits)
              /\ probe'[p].retryCount = probe[p].retryCount + 1
              /\ ~online =>
                    /\ probe'[p].pc = "done"
                    /\ probe'[p].result = Failure(OfflineMsg)
                    /\ probe'[p].getDocCalls = probe[p].getDocCalls
              /\ online /\ ~currentUser =>
                    /\ probe'[p].pc = "done"
                    /\ probe'[p].result = Success
                    /\ probe'[p].getDocCalls = probe[p].getDocCalls
              /\ online /\ currentUser =>
                    /\ probe'[p].pc = "race"
                    /\ probe'[p].getDocCalls = probe[p].getDocCalls + 1]_vars

\* A probe call whose only remote check timed out and whose session was gone
\* after the first backoff wait: it has reported success.
C15_Witness ==
    \E p \in Probes :
        /\ online /\ ~currentUser
        /\ probe[p].origin = "call"
        /\ probe[p].pc = "done"
        /\ probe[p].returned = Success
        /\ probe[p].attempts = 2 /\ probe[p].retryCount = 1
        /\ probe[p].getDocCalls = 1
        /\ probe[p].err = TimeoutError
        /\ probe[p].waits = <<BackoffDelay(0)>>

\* The same wait, the device offline after it.
C15_OfflineReached ==
    \E p \in Probes :
        /\ ~online
        /\ probe[p].pc = "done"
        /\ probe[p].result = Failure(OfflineMsg)
        /\ probe[p].attempts = 2 /\ probe[p].getDocCalls = 1

====
